---- MODULE Spec2Model ----
(***************************************************************************)
(* PipeRPCPlugin (pytorch_lightning/plugins/pipe_rpc_plugin.py): the       *)
(* orchestration protocol of pipeline-parallel training.  One plugin       *)
(* object lives in every process (rank); a process is identified with its  *)
(* global rank.  Every handler of the plugin is one action, except that a  *)
(* handler is cut where it blocks: at a barrier call (up to the call, and  *)
(* from the release of the barrier on), and at a broadcast that changes    *)
(* what another handler can see (one step per remote invocation of the     *)
(* registration, of the save and of the step broadcast).  A handler        *)
(* that raises keeps the assignments it made before the raise.  The        *)
(* record `call` holds the most recent handler call: which handler, on     *)
(* which rank, with which inputs, how it ended, and the ordered trace of   *)
(* the side effects it had on the runtime and on the other processes.      *)
(***************************************************************************)
EXTENDS Integers, Sequences, FiniteSets, TLC

\* ------------------------------------------------------------- bounds
MaxWorld == 2
MaxStages == 2
MaxPerStage == 2
MaxLayers == 3
MaxOptimizers == 2
MaxCounted == 3

VARIABLES
  world_size,          \* number of processes of the run
  balance,             \* self.balance: layers per pipeline stage
  layers,              \* the user's nn.Sequential: its children's names, in order
  main_rpc_process,    \* [rank -> self.main_rpc_process]
  num_gpus_per_model,  \* [rank -> self.num_gpus_per_model], 0 while the attribute is unset
  dist_initialized,    \* [rank -> torch_distrib.is_initialized()]
  rpc_initialized,     \* [rank -> the RPC mesh is up on that rank]
  mpu_args,            \* [rank -> the arguments mpu.initialize_model_parallel got, <<>> if never called]
  conn,                \* [rank -> how the last init_distributed_connection of the rank ended]
  model_layers,        \* [rank -> trainer.get_model().layers: its kind and its children]
  has_foreach_worker,  \* [rank -> hasattr(model, "foreach_worker")]
  optimizers_map,      \* [rank -> self._optimizers_map], <<>> while the attribute is unset
  calls_since_setup,   \* [rank -> [opt_idx -> optimizer_step calls since on_after_setup_optimizers]]
  files,               \* [rank -> the file seq_<rank>.pt of the working directory]
  owner,               \* the rank whose optimizer coordinator is followed
  save_todo,           \* [rank -> the ranks its save broadcast has still to run on, in order]
  step_todo,           \* [rank -> the run_optimizer invocations its step broadcast has still to make]
  pc,                  \* [rank -> where the rank is in the handler it runs, or between handlers]
  log,                 \* [rank -> the effects of the rank's current lifecycle handler, in order]
  call                 \* the most recent handler call

vars == <<world_size, balance, layers, main_rpc_process, num_gpus_per_model,
          dist_initialized, rpc_initialized, mpu_args, conn, model_layers,
          has_foreach_worker, optimizers_map, calls_since_setup, files,
          owner, save_todo, step_todo, pc, log, call>>

confVars == <<world_size, balance, layers>>
connVars == <<main_rpc_process, num_gpus_per_model, dist_initialized,
              rpc_initialized, mpu_args, conn>>
trainVars == <<model_layers, has_foreach_worker, optimizers_map,
               calls_since_setup, files, owner, save_todo, step_todo>>
syncVars == <<pc, log>>

\* ------------------------------------------------------------- helpers
Procs == 0 .. (world_size - 1)

RECURSIVE Sum(_)
Sum(s) == IF s = <<>> THEN 0 ELSE Head(s) + Sum(Tail(s))

Range(s) == {s[k] : k \in 1 .. Len(s)}

Ev(name, rank) == <<name, rank>>

\* The balances a plugin can be constructed with: __init__ rejects None, so
\* a constructed plugin holds a list; one positive entry per stage.
Balances == UNION {[1 .. n -> 1 .. MaxPerStage] : n \in 1 .. MaxStages}

\* nn.Sequential(l0, l1, ...) names its children "0", "1", ...: here the
\* names are 1 .. n, and child k is the k-th layer object.
Sequential(n) == [k \in 1 .. n |-> [name |-> k, child |-> k]]

\* No file seq_<rank>.pt.
NoFile == [present |-> FALSE, children |-> <<>>]

NoCall == [op |-> "none", rank |-> 0, outcome |-> "none", trace |-> <<>>,
           input |-> <<>>, main_before |-> FALSE]

\* ------------------------------------------------- connection setup
\* A variant of _check_manual_optimization that forgets the mixed-precision test.
CheckManualOptimization_IgnoresAmp(automatic_optimization, amp_backend) ==
  IF automatic_optimization THEN "err_automatic_optimization" ELSE "ok"

\* _check_manual_optimization: the error it raises, "ok" if none.
CheckManualOptimization(automatic_optimization, amp_backend) ==
  IF automatic_optimization THEN "err_automatic_optimization"
  ELSE IF amp_backend # "None" THEN "err_amp"
  ELSE "ok"

\* _skip_init_connections
SkipInitConnections(p, testing) ==
  IF dist_initialized[p] /\ testing THEN TRUE ELSE FALSE

\* ensure_divisibility(numerator, denominator): passes iff it divides.
EnsureDivisibility(numerator, denominator) == numerator % denominator = 0

\* num_model_parallel = self.num_gpus_per_model / world_size: Python's true
\* division, kept as the exact fraction num/den.
NumModelParallel(gpus_per_model, world) == [num |-> gpus_per_model, den |-> world]

\* A variant of init_model_parallel_groups that tests the divisibility the
\* wrong way round.
InitModelParallelGroups_DivisibilitySwapped(world) ==
  LET gpus_per_model == Len(balance)
  IN [num_gpus_per_model |-> gpus_per_model,
      divisible |-> EnsureDivisibility(gpus_per_model, world),
      args |-> <<NumModelParallel(gpus_per_model, world), world>>]

\* init_model_parallel_groups(world_size): the value it stores in
\* self.num_gpus_per_model, whether ensure_divisibility passes, and the two
\* positional arguments it then hands to mpu.initialize_model_parallel.
InitModelParallelGroups(world) ==
  LET gpus_per_model == Len(balance)
  IN [num_gpus_per_model |-> gpus_per_model,
      divisible |-> EnsureDivisibility(world, gpus_per_model),
      args |-> <<NumModelParallel(gpus_per_model, world), world>>]

\* set_main_rpc_process
SetMainRpcProcess(global_rank) == global_rank # 0

\* _check_sequential_model_exists: hasattr(model, "layers") and it is an nn.Sequential.
CheckSequentialModelExists(p) == model_layers[p].kind = "sequential"

\* _assert_valid_model_balance
AssertValidModelBalance(p) == Sum(balance) = Len(model_layers[p].children)

\* The part of init_distributed_connection inside `if not self._skip_init_connections`,
\* as the outcome and the trace of its effects, in program order.
ConnectBody(p) ==
  LET up == <<Ev("base_init", p), Ev("rpc_init", p), Ev("ensure_divisibility", p)>>
  IN IF ~InitModelParallelGroups(world_size).divisible
     THEN [outcome |-> "err_divisibility", trace |-> up]
     ELSE LET grp == up \o <<Ev("mpu_init", p)>>
          IN IF ~main_rpc_process[p]
             THEN [outcome |-> "ok", trace |-> grp]
             ELSE IF ~CheckSequentialModelExists(p)
             THEN [outcome |-> "err_no_sequential",
                   trace |-> grp \o <<Ev("check_sequential", p)>>]
             ELSE IF ~AssertValidModelBalance(p)
             THEN [outcome |-> "err_balance_sum",
                   trace |-> grp \o <<Ev("check_sequential", p), Ev("assert_balance", p)>>]
             ELSE [outcome |-> "ok",
                   trace |-> grp \o <<Ev("check_sequential", p), Ev("assert_balance", p)>>]

\* init_distributed_connection on rank p (trainer.global_rank = global_rank = p).
InitDistributedConnection(p, automatic_optimization, amp_backend, testing) ==
  LET chk == CheckManualOptimization(automatic_optimization, amp_backend)
      skip == SkipInitConnections(p, testing)
      body == IF chk # "ok" THEN [outcome |-> chk, trace |-> <<>>]
              ELSE IF skip THEN [outcome |-> "ok", trace |-> <<>>]
              ELSE ConnectBody(p)
      did(name) == Ev(name, p) \in Range(body.trace)
      ok == body.outcome = "ok"
  IN /\ p \in Procs
     /\ dist_initialized' = [dist_initialized EXCEPT ![p] = @ \/ did("base_init")]
     /\ rpc_initialized' = [rpc_initialized EXCEPT ![p] = @ \/ did("rpc_init")]
     /\ num_gpus_per_model' =
          [num_gpus_per_model EXCEPT
             ![p] = IF did("ensure_divisibility")
                    THEN InitModelParallelGroups(world_size).num_gpus_per_model
                    ELSE @]
     /\ mpu_args' =
          [mpu_args EXCEPT
             ![p] = IF did("mpu_init")
                    THEN InitModelParallelGroups(world_size).args
                    ELSE @]
     /\ main_rpc_process' =
          [main_rpc_process EXCEPT ![p] = IF ok THEN SetMainRpcProcess(p) ELSE @]
     /\ conn' = [conn EXCEPT ![p] = IF ok THEN "ok" ELSE "failed"]
     /\ call' = [op |-> "init_distributed_connection", rank |-> p,
                 outcome |-> body.outcome,
                 trace |-> IF ok THEN body.trace \o <<Ev("set_main_rpc_process", p)>>
                           ELSE body.trace,
                 input |-> [automatic_optimization |-> automatic_optimization,
                            amp_backend |-> amp_backend, testing |-> testing,
                            skip |-> skip],
                 topology_before |-> num_gpus_per_model[p] # 0,
                 main_before |-> main_rpc_process[p]]
     /\ UNCHANGED <<confVars, syncVars, trainVars>>

\* ------------------------------------------------------------- Init
\* The state after every process constructed its plugin and its model.
Init ==
  /\ world_size \in 1 .. MaxWorld
  /\ balance \in Balances
  /\ \E n \in 1 .. MaxLayers : layers = Sequential(n)
  /\ main_rpc_process = [p \in Procs |-> FALSE]
  /\ num_gpus_per_model = [p \in Procs |-> 0]
  /\ dist_initialized = [p \in Procs |-> FALSE]
  /\ rpc_initialized = [p \in Procs |-> FALSE]
  /\ mpu_args = [p \in Procs |-> <<>>]
  /\ conn = [p \in Procs |-> "none"]
  /\ \E k \in {"sequential", "missing"} :
       model_layers = [p \in Procs |->
         [kind |-> k, children |-> IF k = "sequential" THEN layers ELSE <<>>]]
  /\ has_foreach_worker = [p \in Procs |-> FALSE]
  /\ optimizers_map = [p \in Procs |-> <<>>]
  /\ calls_since_setup = [p \in Procs |-> <<>>]
  /\ files = [r \in 0 .. (MaxStages - 1) |-> NoFile]
  /\ owner = 0   \* not used during connection setup
  /\ save_todo = [p \in Procs |-> <<>>]
  /\ step_todo = [p \in Procs |-> <<>>]
  /\ pc = [p \in Procs |-> "idle"]
  /\ log = [p \in Procs |-> <<>>]
  /\ call = NoCall

Connect ==
  \E p \in Procs, automatic_optimization \in BOOLEAN,
     amp_backend \in {"None", "native"}, testing \in BOOLEAN :
    InitDistributedConnection(p, automatic_optimization, amp_backend, testing)

Next == Connect

Spec == Init /\ [][Next]_vars
\* ------------------------------------------ the pipeline engine, as used
\* The plugin drives the other processes only through the engine's
\* foreach_worker(fn, ctx, include_self): fn runs once on every process that
\* holds a shard of the caller's model replica, and on the caller itself
\* only with include_self.  Replica k holds the ranks k*D .. k*D + D - 1
\* (D = len(balance)); the process at position s of a replica holds stage s.
ReplicaOf(p) == {q \in Procs : q \div Len(balance) = p \div Len(balance)}

StageOf(q) == (q % Len(balance)) + 1

RECURSIVE Ascending(_)
Ascending(S) ==
  IF S = {} THEN <<>>
  ELSE LET m == CHOOSE x \in S : \A y \in S : x <= y
       IN <<m>> \o Ascending(S \ {m})

\* The ranks fn runs on, in ascending order.
ForeachWorker(p, include_self) ==
  Ascending(IF include_self THEN ReplicaOf(p) ELSE ReplicaOf(p) \ {p})

\* The engine splits the module by balance and keeps the children's names:
\* stage k holds balance[k] consecutive children.
Partition(module, k) ==
  LET offset == Sum(SubSeq(balance, 1, k - 1))
  IN SubSeq(module, offset + 1, offset + balance[k])

\* list(model.children())[0] on rank q: the partition that rank holds.
LocalPartition(q) == Partition(layers, StageOf(q))

\* ------------------------------------------------------ model wrapping
\* _find_pipe_module: "ok" when model.layers is an nn.Sequential that the
\* engine can split by self.balance; the error otherwise.
FindPipeModule(p) ==
  IF model_layers[p].kind # "sequential" THEN "err_no_sequential"
  ELSE IF Sum(balance) # Len(model_layers[p].children) THEN "err_pipe_balance"
  ELSE "ok"

\* A variant of the registration broadcast that leaves the caller out.
RegisterBroadcast_ExcludesSelf(p) ==
  LET targets == ForeachWorker(p, FALSE)
  IN [k \in 1 .. Len(targets) |-> Ev("register_optimizers", targets[k])]

\* model.foreach_worker(register_optimizers, include_self=True): the ranks
\* register_optimizers runs on, in order.
RegisterBroadcast(p) ==
  LET targets == ForeachWorker(p, TRUE)
  IN [k \in 1 .. Len(targets) |-> Ev("register_optimizers", targets[k])]

\* One process runs one handler at a time: rank p can be called when it is
\* neither blocked inside on_main_rpc_connection (in its barrier or in its
\* registration broadcast) or on_exit_rpc_process nor torn down, nor stopped
\* by an error of on_main_rpc_connection, nor waiting in the save broadcast
\* of rpc_save_model or in the step broadcast of optimizer_step.
Running(p) == pc[p] \in {"idle", "main_done"}

\* ------------------------------------------------ optimizer coordinator
\* A variant of on_after_setup_optimizers that starts every toggle at true.
OptimizersMap_StartsTrue(n) == [opt_idx \in 0 .. (n - 1) |-> TRUE]

\* on_after_setup_optimizers: {opt_idx: False for opt_idx, opt in enumerate(trainer.optimizers)}
OptimizersMap(n) == [opt_idx \in 0 .. (n - 1) |-> FALSE]

OnAfterSetupOptimizers(p, n) ==
  /\ p \in Procs
  /\ Running(p)
  /\ optimizers_map' = [optimizers_map EXCEPT ![p] = OptimizersMap(n)]
  /\ calls_since_setup' = [calls_since_setup EXCEPT ![p] = [opt_idx \in 0 .. (n - 1) |-> 0]]
  /\ call' = [op |-> "on_after_setup_optimizers", rank |-> p, outcome |-> "ok",
              trace |-> <<>>, input |-> [optimizers |-> n],
              main_before |-> main_rpc_process[p]]
  /\ UNCHANGED <<confVars, syncVars, connVars, model_layers, has_foreach_worker, files, owner,
                 save_todo, step_todo>>

EvIdx(name, rank, opt_idx) == <<name, rank, opt_idx>>

\* A variant of _optimizer_step whose broadcast includes the caller.
OptimizerStepBroadcast_IncludesSelf(p, opt_idx) ==
  LET targets == ForeachWorker(p, TRUE)
  IN [k \in 1 .. Len(targets) |-> EvIdx("run_optimizer", targets[k], opt_idx)]

\* _optimizer_step: foreach_worker(run_optimizer, {"opt_idx": opt_idx},
\* include_self=False); run_optimizer steps trainer.optimizers[opt_idx] of
\* the process it runs on.
OptimizerStepBroadcast(p, opt_idx) ==
  LET targets == ForeachWorker(p, FALSE)
  IN [k \in 1 .. Len(targets) |-> EvIdx("run_optimizer", targets[k], opt_idx)]

\* A variant of the toggle update that flips the toggle of every optimizer.
FlipToggle_All(map, opt_idx) == [i \in DOMAIN map |-> ~map[i]]

\* self._optimizers_map[opt_idx] = not self._optimizers_map[opt_idx]
FlipToggle(map, opt_idx) == [map EXCEPT ![opt_idx] = ~map[opt_idx]]

\* The run_optimizer invocations of the step broadcast of rank p that
\* returned: the broadcast of the call for opt_idx without those to come.
StepDone(p, opt_idx) ==
  LET all == OptimizerStepBroadcast(p, opt_idx)
  IN SubSeq(all, 1, Len(all) - Len(step_todo[p]))

\* optimizer_step on rank p for the optimizer of index opt_idx, up to the
\* point where it waits.  The trainer calls it on a main RPC process whose
\* model is wrapped and whose optimizers are set up.  It flips the toggle;
\* on false it returns False; on true it steps the local optimizer and calls
\* _optimizer_step, a remote invocation of run_optimizer on every target in
\* turn, and waits for it (with no target it returns True at once).
OptimizerStepBegin(p, opt_idx) ==
  LET flipped == FlipToggle(optimizers_map[p], opt_idx)[opt_idx]
      counted == IF calls_since_setup[p][opt_idx] < MaxCounted
                 THEN calls_since_setup[p][opt_idx] + 1 ELSE MaxCounted
      todo == IF flipped THEN OptimizerStepBroadcast(p, opt_idx) ELSE <<>>
  IN /\ p \in Procs
     /\ Running(p)
     /\ has_foreach_worker[p]
     /\ opt_idx \in DOMAIN optimizers_map[p]
     /\ optimizers_map' = [optimizers_map EXCEPT ![p] = FlipToggle(@, opt_idx)]
     /\ calls_since_setup' = [calls_since_setup EXCEPT ![p][opt_idx] = counted]
     /\ step_todo' = [step_todo EXCEPT ![p] = todo]
     /\ pc' = [pc EXCEPT ![p] = IF todo = <<>> THEN @ ELSE "step_wait"]
     /\ call' = IF todo = <<>>
                THEN [op |-> "optimizer_step", rank |-> p, outcome |-> "ok",
                      ret |-> flipped,
                      trace |-> IF flipped THEN <<EvIdx("optimizer.step", p, opt_idx)>>
                                ELSE <<>>,
                      input |-> [opt_idx |-> opt_idx], nth |-> counted,
                      main_before |-> main_rpc_process[p]]
                ELSE [op |-> "optimizer_step", rank |-> p, outcome |-> "waiting",
                      trace |-> <<EvIdx("optimizer.step", p, opt_idx)>>,
                      input |-> [opt_idx |-> opt_idx], nth |-> counted,
                      main_before |-> main_rpc_process[p]]
     /\ UNCHANGED <<confVars, connVars, log, model_layers, has_foreach_worker, files, owner,
                    save_todo>>

\* The step broadcast of rank p reaches its next target q: run_optimizer
\* steps the optimizer of that index there, or the remote call raises
\* (run_fails), and then optimizer_step raises on p, with the toggle flipped
\* and the local step done.  When the last target returned, optimizer_step
\* returns True.
RunOptimizerOnNext(p, run_fails) ==
  LET next == Head(step_todo[p])
      q == next[2]
      opt_idx == next[3]
      last == Len(step_todo[p]) = 1
      before == <<EvIdx("optimizer.step", p, opt_idx)>> \o StepDone(p, opt_idx)
  IN /\ p \in Procs
     /\ pc[p] = "step_wait"
     /\ step_todo[p] # <<>>
     /\ step_todo' = [step_todo EXCEPT ![p] = IF run_fails THEN <<>> ELSE Tail(@)]
     /\ pc' = [pc EXCEPT ![p] = IF run_fails \/ last THEN "main_done" ELSE @]
     /\ call' = IF run_fails
                THEN [op |-> "optimizer_step", rank |-> p, outcome |-> "err_remote",
                      trace |-> Append(before, EvIdx("run_optimizer_raises", q, opt_idx)),
                      input |-> [opt_idx |-> opt_idx],
                      nth |-> calls_since_setup[p][opt_idx],
                      main_before |-> main_rpc_process[p]]
                ELSE IF last
                THEN [op |-> "optimizer_step", rank |-> p, outcome |-> "ok",
                      ret |-> optimizers_map[p][opt_idx],
                      trace |-> Append(before, next),
                      input |-> [opt_idx |-> opt_idx],
                      nth |-> calls_since_setup[p][opt_idx],
                      main_before |-> main_rpc_process[p]]
                ELSE [op |-> "optimizer_step", rank |-> p, outcome |-> "waiting",
                      trace |-> Append(before, next),
                      input |-> [opt_idx |-> opt_idx],
                      nth |-> calls_since_setup[p][opt_idx],
                      main_before |-> main_rpc_process[p]]
     /\ UNCHANGED <<confVars, connVars, log, model_layers, has_foreach_worker, files, owner,
                    save_todo, optimizers_map, calls_since_setup>>

\* ------------------------------------------------ checkpoint coordinator
\* save, run on every rank of `ranks`: a rank in range(num_gpus_per_model)
\* writes the partition it holds to seq_<rank>.pt.
Save(fs, ranks, gpus_per_model) ==
  [r \in DOMAIN fs |->
     IF r \in ranks /\ r \in 0 .. (gpus_per_model - 1)
     THEN [present |-> TRUE, children |-> LocalPartition(r)]
     ELSE fs[r]]

\* nn.Module.add_module: a new name is appended, a known name keeps its
\* place and gets the new child.
AddModule(seq, name, child) ==
  IF \E k \in 1 .. Len(seq) : seq[k].name = name
  THEN [k \in 1 .. Len(seq) |->
          IF seq[k].name = name THEN [name |-> name, child |-> child] ELSE seq[k]]
  ELSE Append(seq, [name |-> name, child |-> child])

RECURSIVE AddChildren(_, _)
AddChildren(seq, p_seq) ==
  IF p_seq = <<>> THEN seq
  ELSE AddChildren(AddModule(seq, Head(p_seq).name, Head(p_seq).child), Tail(p_seq))

RECURSIVE AddShards(_, _)
AddShards(seq, partial_seqs) ==
  IF partial_seqs = <<>> THEN seq
  ELSE AddShards(AddChildren(seq, Head(partial_seqs)), Tail(partial_seqs))

\* reload_sequential: the module built from seq_0.pt .. seq_<n-1>.pt.
ReloadSequential(fs, gpus_per_model) ==
  AddShards(<<>>, [k \in 1 .. gpus_per_model |-> fs[k - 1].children])

\* A variant of reload_sequential's clean-up that removes only seq_0.pt.
RemoveShards_OnlyFirst(fs, gpus_per_model) ==
  [r \in DOMAIN fs |-> IF r = 0 THEN NoFile ELSE fs[r]]

\* The files left when reload_sequential returns: it removes seq_0 .. seq_<n-1>.
RemoveShards(fs, gpus_per_model) ==
  [r \in DOMAIN fs |-> IF r \in 0 .. (gpus_per_model - 1) THEN NoFile ELSE fs[r]]

\* A variant of the guard of rpc_save_model that tests for the `layers` attribute.
Pipelined_TestsLayers(p) == model_layers[p].kind # "missing"

\* hasattr(pl_module, "foreach_worker"): the guard of rpc_save_model.
Pipelined(p) == has_foreach_worker[p]

\* The events of the save broadcast of rank p that are done: save has run
\* on the targets that are no longer to do.
SaveDone(p) ==
  LET targets == ForeachWorker(p, TRUE)
      n == Len(targets) - Len(save_todo[p])
  IN [k \in 1 .. n |-> Ev("save", targets[k])]

\* rpc_save_model on rank p up to the point where it waits: on a model
\* without foreach_worker it returns at once; otherwise it keeps
\* pl_module.layers and calls model.foreach_worker(save, ..., include_self=True),
\* a remote invocation on every target in turn, and waits for it.
RpcSaveModelBegin(p) ==
  /\ p \in Procs
  /\ Running(p)
  /\ conn[p] = "ok"
  /\ main_rpc_process[p]
  /\ IF ~Pipelined(p)
     THEN /\ call' = [op |-> "rpc_save_model", rank |-> p, outcome |-> "ok",
                      trace |-> <<>>, pipelined |-> FALSE,
                      input |-> <<>>,
                      layers_before |-> model_layers[p], reloaded |-> <<>>,
                      save_fn_got |-> <<>>, main_before |-> main_rpc_process[p]]
          /\ UNCHANGED <<pc, save_todo>>
     ELSE /\ pc' = [pc EXCEPT ![p] = "save_wait"]
          /\ save_todo' = [save_todo EXCEPT ![p] = ForeachWorker(p, TRUE)]
          /\ call' = [op |-> "rpc_save_model", rank |-> p, outcome |-> "waiting",
                      trace |-> <<>>, pipelined |-> TRUE,
                      input |-> <<>>,
                      layers_before |-> model_layers[p], reloaded |-> <<>>,
                      save_fn_got |-> <<>>, main_before |-> main_rpc_process[p]]
  /\ UNCHANGED <<confVars, connVars, log, model_layers, has_foreach_worker, files,
                 optimizers_map, calls_since_setup, owner, step_todo>>

\* The save broadcast of rank p reaches its next target q: save runs there
\* and writes seq_<q>.pt, or the remote call raises (save_fails), and then
\* rpc_save_model ends on p with that error, before line 188.
SaveOnNext(p, save_fails) ==
  LET q == Head(save_todo[p])
      gpm == num_gpus_per_model[p]
  IN /\ p \in Procs
     /\ pc[p] = "save_wait"
     /\ save_todo[p] # <<>>
     /\ files' = IF save_fails THEN files ELSE Save(files, {q}, gpm)
     /\ save_todo' = [save_todo EXCEPT ![p] = IF save_fails THEN <<>> ELSE Tail(@)]
     /\ pc' = [pc EXCEPT ![p] = IF save_fails THEN "main_done" ELSE @]
     /\ call' = [op |-> "rpc_save_model", rank |-> p,
                 outcome |-> IF save_fails THEN "err_save" ELSE "waiting",
                 trace |-> IF save_fails THEN SaveDone(p) \o <<Ev("save_raises", q)>>
                           ELSE SaveDone(p) \o <<Ev("save", q)>>,
                 pipelined |-> TRUE,
                 input |-> [save_fails |-> save_fails],
                 layers_before |-> model_layers[p], reloaded |-> <<>>,
                 save_fn_got |-> <<>>, main_before |-> main_rpc_process[p]]
     /\ UNCHANGED <<confVars, connVars, log, model_layers, has_foreach_worker,
                    optimizers_map, calls_since_setup, owner, step_todo>>

\* The rest of rpc_save_model on rank p, after the broadcast returned:
\* reload_sequential, save_model_fn on the reloaded module, then the layers
\* are put back.  `unreadable` are the shard files torch.load fails on;
\* save_fn_fails says whether save_model_fn raises.
RpcSaveModelFinish(p, unreadable, save_fn_fails) ==
  LET gpm == num_gpus_per_model[p]
      loadable == \A r \in 0 .. (gpm - 1) : files[r].present /\ r \notin unreadable
      seq == [kind |-> "sequential", children |-> ReloadSequential(files, gpm)]
      outcome == IF ~loadable THEN "err_reload"
                 ELSE IF save_fn_fails THEN "err_save_fn" ELSE "ok"
  IN /\ p \in Procs
     /\ pc[p] = "save_wait"
     /\ save_todo[p] = <<>>
     /\ unreadable \subseteq 0 .. (gpm - 1)
     /\ pc' = [pc EXCEPT ![p] = "main_done"]
     /\ files' = IF loadable THEN RemoveShards(files, gpm) ELSE files
     /\ model_layers' =
          IF outcome = "err_save_fn" THEN [model_layers EXCEPT ![p] = seq]
          ELSE model_layers
     /\ call' = [op |-> "rpc_save_model", rank |-> p, outcome |-> outcome,
                 trace |-> SaveDone(p) \o
                           (IF loadable
                            THEN <<Ev("reload_sequential", p), Ev("save_model_fn", p)>>
                            ELSE <<Ev("reload_sequential", p)>>)
                           \o (IF outcome = "ok" THEN <<Ev("restore_layers", p)>> ELSE <<>>),
                 pipelined |-> TRUE,
                 input |-> [unreadable |-> unreadable, save_fn_fails |-> save_fn_fails],
                 layers_before |-> model_layers[p],
                 reloaded |-> IF loadable THEN <<seq.children>> ELSE <<>>,
                 save_fn_got |-> IF loadable THEN <<seq>> ELSE <<>>,
                 main_before |-> main_rpc_process[p]]
     /\ UNCHANGED <<confVars, connVars, log, save_todo, has_foreach_worker,
                    optimizers_map, calls_since_setup, owner, step_todo>>

\* ------------------------------------------------- training-time specs
\* The state in which every process has returned from a first
\* init_distributed_connection (manual optimization, no amp backend), the
\* last of them a rank that became the main RPC process.
InitTrain ==
  /\ world_size \in 1 .. MaxWorld
  /\ balance \in Balances
  /\ InitModelParallelGroups(world_size).divisible
  /\ \E n \in 1 .. MaxLayers : layers = Sequential(n)
  /\ main_rpc_process = [p \in Procs |-> SetMainRpcProcess(p)]
  /\ num_gpus_per_model =
       [p \in Procs |-> InitModelParallelGroups(world_size).num_gpus_per_model]
  /\ dist_initialized = [p \in Procs |-> TRUE]
  /\ rpc_initialized = [p \in Procs |-> TRUE]
  /\ mpu_args = [p \in Procs |-> InitModelParallelGroups(world_size).args]
  /\ conn = [p \in Procs |-> "ok"]
  /\ \E k \in {"sequential", "missing"} :
       model_layers = [p \in Procs |->
         [kind |-> k, children |-> IF k = "sequential" THEN layers ELSE <<>>]]
  /\ has_foreach_worker = [p \in Procs |-> FALSE]
  /\ optimizers_map = [p \in Procs |-> <<>>]
  /\ calls_since_setup = [p \in Procs |-> <<>>]
  /\ files = [r \in 0 .. (MaxStages - 1) |-> NoFile]
  /\ owner \in {p \in Procs : main_rpc_process[p]}
  /\ save_todo = [p \in Procs |-> <<>>]
  /\ step_todo = [p \in Procs |-> <<>>]
  /\ pc = [p \in Procs |-> "idle"]
  /\ log = [p \in Procs |-> <<>>]
  /\ call = [op |-> "init_distributed_connection", rank |-> owner, outcome |-> "ok",
             trace |-> <<Ev("base_init", owner), Ev("rpc_init", owner),
                         Ev("ensure_divisibility", owner), Ev("mpu_init", owner),
                         Ev("set_main_rpc_process", owner)>>,
             input |-> [automatic_optimization |-> FALSE, amp_backend |-> "None",
                        testing |-> FALSE, skip |-> FALSE],
             topology_before |-> FALSE,
             main_before |-> FALSE]

\* ------------------------------------- lifecycle handlers and the barrier
\* mpu.get_data_parallel_group() on rank p: the ranks at p's position of
\* every replica.
DataParallelGroup(p) == {q \in Procs : q % Len(balance) = p % Len(balance)}

\* torch_distrib.barrier(group): a rank that called it is blocked until
\* every rank of the group has called it.
AtBarrier(q) == pc[q] \in {"main_barrier", "exit_barrier"}

\* on_main_rpc_connection on rank p up to the point where it blocks:
\* _find_pipe_module, then the call of the barrier.
MainBegin(p) ==
  LET found == FindPipeModule(p)
      done == IF found = "ok" THEN <<Ev("wrap", p), Ev("barrier_wait", p)>> ELSE <<>>
  IN /\ p \in Procs
     /\ conn[p] = "ok"
     /\ main_rpc_process[p]
     /\ mpu_args[p] # <<>>
     /\ pc[p] = "idle"
     /\ model_layers' =
          IF found = "ok" THEN [model_layers EXCEPT ![p].kind = "pipe"] ELSE model_layers
     /\ has_foreach_worker' = [has_foreach_worker EXCEPT ![p] = @ \/ found = "ok"]
     /\ pc' = [pc EXCEPT ![p] = IF found = "ok" THEN "main_barrier" ELSE "main_failed"]
     /\ log' = [log EXCEPT ![p] = done]
     /\ call' = [op |-> "on_main_rpc_connection", rank |-> p,
                 outcome |-> IF found = "ok" THEN "at_barrier" ELSE found,
                 trace |-> done, input |-> <<>>, main_before |-> main_rpc_process[p]]
     /\ UNCHANGED <<confVars, connVars, optimizers_map, calls_since_setup, files, owner,
                    save_todo, step_todo>>

\* The barrier of one data-parallel group completes: every rank of the
\* group is blocked in it, and all of them go on.
BarrierPass(g) ==
  /\ g # {}
  /\ \A q \in g : AtBarrier(q)
  /\ pc' = [q \in Procs |->
              IF q \notin g THEN pc[q]
              ELSE IF pc[q] = "main_barrier" THEN "main_passed" ELSE "exit_passed"]
  /\ log' = [q \in Procs |->
               IF q \in g THEN Append(log[q], Ev("barrier_pass", q)) ELSE log[q]]
  /\ call' = [op |-> "barrier", rank |-> CHOOSE q \in g : \A r \in g : q <= r,
              outcome |-> "ok", trace |-> <<>>, input |-> [group |-> g],
              main_before |-> FALSE]
  /\ UNCHANGED <<confVars, connVars, trainVars>>

\* The events of the registration broadcast of rank p that are still to
\* come: the broadcast runs register_optimizers on its targets in turn, and
\* the log of p holds the ones that returned.
RegisterTodo(p) ==
  LET all == RegisterBroadcast(p)
      n == Cardinality({k \in 1 .. Len(log[p]) : log[p][k][1] = "register_optimizers"})
  IN SubSeq(all, n + 1, Len(all))

\* The rest of on_main_rpc_connection, past the barrier: the registration
\* broadcast of line 162 reaches its next target, a remote invocation the
\* owner waits for.  register_optimizers runs there, or the remote call
\* raises (register_fails), and then on_main_rpc_connection ends on p with
\* that error.  When the last target returned, the handler returns.
RegisterOnNext(p, register_fails) ==
  LET todo == RegisterTodo(p)
      q == Head(todo)[2]
      last == Len(todo) <= 1
  IN /\ p \in Procs
     /\ pc[p] = "main_passed"
     /\ register_fails => todo # <<>>
     /\ pc' = [pc EXCEPT ![p] = IF register_fails THEN "main_failed"
                                ELSE IF last THEN "main_done" ELSE @]
     /\ log' = [log EXCEPT ![p] =
                  IF todo = <<>> THEN @
                  ELSE IF register_fails THEN Append(@, Ev("register_raises", q))
                  ELSE Append(@, Head(todo))]
     /\ call' = [op |-> "on_main_rpc_connection", rank |-> p,
                 outcome |-> IF register_fails THEN "err_register"
                             ELSE IF last THEN "ok" ELSE "waiting",
                 trace |-> log'[p], input |-> [register_fails |-> register_fails],
                 main_before |-> main_rpc_process[p]]
     /\ UNCHANGED <<confVars, connVars, trainVars>>

\* on_exit_rpc_process on rank p up to the point where it blocks: the call
\* of the barrier.  The handler has no test of the role: it is run by a
\* secondary process once connected and by a main process after
\* on_main_rpc_connection returned.
ExitBegin(p) ==
  /\ p \in Procs
  /\ conn[p] = "ok"
  /\ mpu_args[p] # <<>>
  /\ IF main_rpc_process[p] THEN pc[p] = "main_done" ELSE pc[p] = "idle"
  /\ pc' = [pc EXCEPT ![p] = "exit_barrier"]
  /\ log' = [log EXCEPT ![p] = <<Ev("barrier_wait", p)>>]
  /\ call' = [op |-> "on_exit_rpc_process", rank |-> p, outcome |-> "at_barrier",
              trace |-> log'[p], input |-> <<>>, main_before |-> main_rpc_process[p]]
  /\ UNCHANGED <<confVars, connVars, trainVars>>

\* A variant of on_exit_rpc_process that shuts RPC down before it attaches.
ExitAfterBarrier_ShutdownFirst(p) ==
  <<Ev("rpc_shutdown", p), Ev("attach_trainer", p), Ev("attach_configure_optimizers", p)>>

\* on_exit_rpc_process after the barrier: rpc_pipe.PipeModel.trainer =
\* trainer.model, rpc_pipe.PipeModel.configure_optimizers =
\* trainer.model.configure_optimizers, torch.distributed.rpc.shutdown().
ExitAfterBarrier(p) ==
  <<Ev("attach_trainer", p), Ev("attach_configure_optimizers", p), Ev("rpc_shutdown", p)>>

\* The rest of on_exit_rpc_process on rank p.
ExitFinish(p) ==
  /\ p \in Procs
  /\ pc[p] = "exit_passed"
  /\ pc' = [pc EXCEPT ![p] = "closed"]
  /\ log' = [log EXCEPT ![p] = @ \o ExitAfterBarrier(p)]
  /\ rpc_initialized' = [rpc_initialized EXCEPT ![p] = FALSE]
  /\ call' = [op |-> "on_exit_rpc_process", rank |-> p, outcome |-> "ok",
              trace |-> log'[p], input |-> <<>>, main_before |-> main_rpc_process[p]]
  /\ UNCHANGED <<confVars, trainVars, main_rpc_process, num_gpus_per_model,
                 dist_initialized, mpu_args, conn>>

\* The lifecycle of all ranks after connection setup, interleaved.
EnterMain == \E p \in Procs : MainBegin(p)

PassBarrier == \E p \in Procs : BarrierPass(DataParallelGroup(p))

Register == \E p \in Procs, register_fails \in BOOLEAN : RegisterOnNext(p, register_fails)

EnterExit == \E p \in Procs : ExitBegin(p)

FinishExit == \E p \in Procs : ExitFinish(p)

NextSync == EnterMain \/ PassBarrier \/ Register \/ EnterExit \/ FinishExit

SpecSync == InitTrain /\ [][NextSync]_vars

\* The optimizer coordinator of one main RPC process, with the lifecycle
\* handlers of all ranks.  The plugins of different ranks share no optimizer
\* state, so the optimizer calls of one rank are followed.
SetupOptimizers == \E n \in 1 .. MaxOptimizers : OnAfterSetupOptimizers(owner, n)

StepOptimizer == \E opt_idx \in 0 .. (MaxOptimizers - 1) : OptimizerStepBegin(owner, opt_idx)

RunOptimizer == \E run_fails \in BOOLEAN : RunOptimizerOnNext(owner, run_fails)

NextOpt == NextSync \/ SetupOptimizers \/ StepOptimizer \/ RunOptimizer

SpecOpt == InitTrain /\ [][NextOpt]_vars

\* The checkpoint coordinator of every main RPC process, with the lifecycle
\* handlers of all ranks.
EnterSave == \E p \in Procs : RpcSaveModelBegin(p)

SaveShard == \E p \in Procs, save_fails \in BOOLEAN : SaveOnNext(p, save_fails)

FinishSave ==
  \E p \in Procs, unreadable \in SUBSET (0 .. (MaxStages - 1)), save_fn_fails \in BOOLEAN :
    RpcSaveModelFinish(p, unreadable, save_fn_fails)

NextSave == NextSync \/ EnterSave \/ SaveShard \/ FinishSave

SpecSave == InitTrain /\ [][NextSave]_vars

\* ------------------------------------------------------- construction
\* balance=None, the default of the constructor's argument: no list.
NoBalance == <<>>

\* PipeRPCPlugin.__init__(balance): self.balance = balance, then a
\* MisconfigurationException when it is None.
PluginInit(balance_arg) == IF balance_arg = NoBalance THEN "err_no_balance" ELSE "ok"

\* The script constructs the plugin, with or without a balance.  When
\* __init__ raises there is no plugin object, and nothing can be called on it.
Construct(balance_arg) ==
  /\ call.op = "none"
  /\ balance = NoBalance
  /\ balance' = balance_arg
  /\ call' = [op |-> "__init__", rank |-> 0, outcome |-> PluginInit(balance_arg),
              trace |-> <<>>, input |-> [balance |-> balance_arg],
              main_before |-> FALSE]
  /\ UNCHANGED <<world_size, layers, syncVars, connVars, trainVars>>

\* The state before the plugin is constructed.
InitNew ==
  /\ world_size \in 1 .. MaxWorld
  /\ balance = NoBalance
  /\ \E n \in 1 .. MaxLayers : layers = Sequential(n)
  /\ main_rpc_process = [p \in Procs |-> FALSE]
  /\ num_gpus_per_model = [p \in Procs |-> 0]
  /\ dist_initialized = [p \in Procs |-> FALSE]
  /\ rpc_initialized = [p \in Procs |-> FALSE]
  /\ mpu_args = [p \in Procs |-> <<>>]
  /\ conn = [p \in Procs |-> "none"]
  /\ \E k \in {"sequential", "missing"} :
       model_layers = [p \in Procs |->
         [kind |-> k, children |-> IF k = "sequential" THEN layers ELSE <<>>]]
  /\ has_foreach_worker = [p \in Procs |-> FALSE]
  /\ optimizers_map = [p \in Procs |-> <<>>]
  /\ calls_since_setup = [p \in Procs |-> <<>>]
  /\ files = [r \in 0 .. (MaxStages - 1) |-> NoFile]
  /\ owner = 0
  /\ save_todo = [p \in Procs |-> <<>>]
  /\ step_todo = [p \in Procs |-> <<>>]
  /\ pc = [p \in Procs |-> "idle"]
  /\ log = [p \in Procs |-> <<>>]
  /\ call = NoCall

ConstructPlugin == \E balance_arg \in Balances \cup {NoBalance} : Construct(balance_arg)

\* Connection setup of a constructed plugin.
ConnectConstructed ==
  /\ call.op # "none"
  /\ call.op = "__init__" => call.outcome = "ok"
  /\ Connect

NextNew == ConstructPlugin \/ ConnectConstructed

SpecNew == InitNew /\ [][NextNew]_vars

\* ===================================================== connection setup
IsConnectCall == call.op = "init_distributed_connection"

RanTopologyInit(p) == num_gpus_per_model[p] # 0

\* The ranks of one model replica are consecutive: replica k holds the ranks
\* k*D .. k*D + D - 1, so the lowest rank of a replica is a multiple of D.
LowestOfReplica(p) == p % Len(balance) = 0

\* C2: once init_distributed_connection has returned on all processes,
\* is_main_rpc_process is true on exactly the lowest-ranked process of every
\* model replica and false on every other process.
C2_OneMainPerReplica ==
  (\A p \in Procs : conn[p] = "ok") =>
    \A p \in Procs : main_rpc_process[p] = LowestOfReplica(p)

\* C3: connection setup ends with a configuration error when sum(balance)
\* differs from the number of layers and raises no balance error when they
\* agree, so that no process completes connection setup with a balance whose
\* sum differs from the model's layer count.
C3_BalanceValidated ==
  /\ (IsConnectCall /\ call.outcome = "err_balance_sum") => Sum(balance) # Len(layers)
  /\ \A p \in Procs :
       (conn[p] = "ok" /\ model_layers[p].kind = "sequential")
         => Sum(balance) = Len(model_layers[p].children)

\* C4: init_model_parallel_groups fails with a divisibility error exactly
\* when world_size % len(balance) # 0; the outcome is the same on every rank
\* that ran it, and a rank on which it failed never initialized the
\* model-parallel/data-parallel groups.
C4_DivisibilityUniform ==
  /\ \A p \in Procs :
       RanTopologyInit(p) =>
         /\ num_gpus_per_model[p] = Len(balance)
         /\ (mpu_args[p] = <<>>) = (world_size % Len(balance) # 0)
  /\ \A p, q \in Procs :
       (RanTopologyInit(p) /\ RanTopologyInit(q))
         => ((mpu_args[p] = <<>>) = (mpu_args[q] = <<>>))
  /\ (IsConnectCall /\ Ev("ensure_divisibility", call.rank) \in Range(call.trace)) =>
       /\ (call.outcome = "err_divisibility") = (world_size % Len(balance) # 0)
       /\ call.outcome = "err_divisibility"
            => /\ Ev("mpu_init", call.rank) \notin Range(call.trace)
               /\ mpu_args[call.rank] = <<>>
               /\ conn[call.rank] = "failed"
       /\ call.outcome # "err_divisibility"
            => mpu_args[call.rank] # <<>>

\* C4 witnesses: a rank on which the topology init failed and one on which it passed.
C4_Witness ==
  /\ IsConnectCall
  /\ call.outcome = "err_divisibility"
  /\ RanTopologyInit(call.rank)

\* C5: with world_size divisible by D = len(balance), the process-group
\* initializer is asked for world_size / D data-parallel replicas of D
\* devices each.
C5_ReplicaCount ==
  \A p \in Procs :
    mpu_args[p] # <<>> =>
      /\ world_size % Len(balance) = 0
      /\ mpu_args[p][1].num = mpu_args[p][1].den * (world_size \div Len(balance))
      /\ mpu_args[p][2] = Len(balance)

\* C10: a call of init_distributed_connection with automatic optimization
\* enabled or a mixed-precision backend set fails with a configuration
\* error, and the step of that call initializes neither the base distributed
\* connection nor the RPC mesh nor the process groups and leaves
\* main_rpc_process as it was.
C10_Step ==
  (/\ call'.op = "init_distributed_connection"
   /\ (call'.input.automatic_optimization \/ call'.input.amp_backend # "None"))
  => /\ call'.outcome \in {"err_automatic_optimization", "err_amp"}
     /\ call'.input.automatic_optimization => call'.outcome = "err_automatic_optimization"
     /\ call'.trace = <<>>
     /\ conn'[call'.rank] = "failed"
     /\ UNCHANGED <<main_rpc_process, dist_initialized, rpc_initialized,
                    mpu_args, num_gpus_per_model>>

\* C10, over every step: an unsupported optimization mode fails the call
\* before anything is initialized and without touching main_rpc_process.
C10_UnsupportedModeFailsFirst == [][C10_Step]_vars

\* C10 witness: a mixed-precision call failed on a rank that was never connected.
C10_Witness ==
  /\ IsConnectCall
  /\ call.outcome = "err_amp"
  /\ ~call.input.automatic_optimization
  /\ ~dist_initialized[call.rank]
  /\ ~rpc_initialized[call.rank]
\* ================================================= optimizer coordinator
\* The last call is an optimizer_step, and it has returned.
IsStepCall == call.op = "optimizer_step" /\ call.outcome = "ok"

\* How often the optimizer of index opt_idx was stepped on rank q in the last call.
StepsOn(q, opt_idx) ==
  Cardinality({k \in 1 .. Len(call.trace) :
                 call.trace[k] \in {EvIdx("optimizer.step", q, opt_idx),
                                    EvIdx("run_optimizer", q, opt_idx)}})

StepsInCall == Cardinality({k \in 1 .. Len(call.trace) : call.trace[k][1] = "optimizer.step"})

\* C1 as stated: after on_after_setup_optimizers the first optimizer_step
\* call for an index returns false without stepping, the second returns true
\* and steps, and the toggle is false again after the second call.
C1_ToggleLaw_AsStated ==
  IsStepCall =>
    /\ call.nth = 1 => (~call.ret /\ StepsInCall = 0)
    /\ call.nth = 2 => (call.ret /\ StepsInCall = 1
                        /\ ~optimizers_map[call.rank][call.input.opt_idx])

\* C1 (amended): after on_after_setup_optimizers has set the toggle of index
\* i to false, two consecutive optimizer_step calls for i perform exactly one
\* optimizer step: the first call performs it and returns true, the second
\* returns false without stepping, and the toggle of i is false again after
\* the second call.
C1_ToggleLaw ==
  /\ \A i \in DOMAIN optimizers_map[owner] :
       /\ calls_since_setup[owner][i] = 0 => ~optimizers_map[owner][i]
       /\ calls_since_setup[owner][i] = 1 => optimizers_map[owner][i]
       /\ calls_since_setup[owner][i] = 2 => ~optimizers_map[owner][i]
  /\ IsStepCall =>
       /\ call.nth = 1 => (call.ret /\ StepsInCall = 1
                           /\ optimizers_map[call.rank][call.input.opt_idx])
       /\ call.nth = 2 => (~call.ret /\ StepsInCall = 0
                           /\ ~optimizers_map[call.rank][call.input.opt_idx])

\* C1 witness: the second call for an index has returned.
C1_Witness ==
  /\ IsStepCall
  /\ call.nth = 2
  /\ calls_since_setup[call.rank][call.input.opt_idx] = 2

\* C9: an optimizer_step call that returns true has stepped the optimizer of
\* that index exactly once on every shard-holding process of the caller's
\* replica and on no other process: first on the caller itself, then on each
\* other shard-holder through the broadcast; a call that returns false
\* steps nothing and broadcasts nothing.
C9_StepReachesEveryShardOnce ==
  IsStepCall =>
    LET p == call.rank
        i == call.input.opt_idx
    IN IF call.ret
       THEN /\ \A q \in Procs : StepsOn(q, i) = IF q \in ReplicaOf(p) THEN 1 ELSE 0
            /\ call.trace[1] = EvIdx("optimizer.step", p, i)
            /\ \A k \in 2 .. Len(call.trace) :
                 /\ call.trace[k][1] = "run_optimizer"
                 /\ call.trace[k][2] # p
                 /\ call.trace[k][3] = i
            /\ Len(call.trace) = Cardinality(ReplicaOf(p))
       ELSE call.trace = <<>>

\* C9 witness: a step was broadcast to another shard-holder.
C9_Witness ==
  /\ IsStepCall
  /\ call.ret
  /\ Len(call.trace) >= 2
  /\ call.trace[2][1] = "run_optimizer"

\* ================================================ checkpoint coordinator
\* The last call is an rpc_save_model on a pipelined model, and it has ended.
IsSaveCall == call.op = "rpc_save_model" /\ call.pipelined /\ call.outcome # "waiting"

NoShardFiles == \A r \in DOMAIN files : ~files[r].present

\* C6: for the shards held by the processes of the caller's model replica,
\* the save broadcast followed by reload_sequential yields a sequential
\* module whose children are the original layers: same names, same order,
\* same count.  (Every shard file that exists is readable.)
C6_RoundTrip ==
  (IsSaveCall /\ call.outcome # "err_save" /\ call.input.unreadable = {})
    => call.reloaded = <<layers>>

\* C7: after an rpc_save_model call that completes on a pipelined model,
\* pl_module.layers is what it was before the call, save_model_fn was invoked
\* exactly once, between the reload and the restore, while layers was the
\* reconstructed plain sequential module, and no shard file remains.
C7_CompletedSaveRestores ==
  (IsSaveCall /\ call.outcome = "ok") =>
    /\ model_layers[call.rank] = call.layers_before
    /\ Len(call.save_fn_got) = 1
    /\ call.save_fn_got[1] = [kind |-> "sequential", children |-> call.reloaded[1]]
    /\ call.save_fn_got[1].children = layers
    /\ Cardinality({k \in 1 .. Len(call.trace) :
                      call.trace[k] = Ev("save_model_fn", call.rank)}) = 1
    /\ \E k \in 2 .. (Len(call.trace) - 1) :
         /\ call.trace[k - 1] = Ev("reload_sequential", call.rank)
         /\ call.trace[k] = Ev("save_model_fn", call.rank)
         /\ call.trace[k + 1] = Ev("restore_layers", call.rank)
    /\ NoShardFiles

\* C7 witness: a save completed on a pipeline-wrapped model of two shards.
C7_Witness ==
  /\ IsSaveCall
  /\ call.outcome = "ok"
  /\ call.layers_before.kind = "pipe"
  /\ model_layers[call.rank].kind = "pipe"
  /\ Len(balance) = 2

\* C8: when a shard file is missing or fails to load during rpc_save_model,
\* save_model_fn is never invoked, the failure reaches the caller, and every
\* shard file the save broadcast produced has been deleted when the call ends.
C8_FailedReloadCleansUp ==
  (IsSaveCall /\ call.outcome = "err_reload") =>
    /\ call.save_fn_got = <<>>
    /\ NoShardFiles

\* ================================================= errors of connection setup
\* The configuration errors init_distributed_connection can end with.
ConfigurationErrors ==
  {"err_automatic_optimization", "err_amp", "err_no_sequential", "err_balance_sum"}

\* The effects of a connection setup that start cross-process coordination.
CoordinationEvents(p) == {Ev("base_init", p), Ev("rpc_init", p), Ev("mpu_init", p)}

\* C11: every configuration error of connection setup is raised before any
\* cross-process coordination begins: a call of init_distributed_connection
\* that ends with such an error has initialized neither the base distributed
\* connection nor the RPC mesh nor the process groups.
C11_ConfigErrorsBeforeCoordination ==
  (IsConnectCall /\ call.outcome \in ConfigurationErrors) =>
    Range(call.trace) \cap CoordinationEvents(call.rank) = {}

\* ================================================= lifecycle and barriers
\* Rank p has returned from on_main_rpc_connection: its model is wrapped and
\* the registration broadcast is done.
OwnerReady(p) ==
  /\ has_foreach_worker[p]
  /\ pc[p] \in {"main_done", "save_wait", "step_wait", "exit_barrier", "exit_passed", "closed"}

PassedExitBarrier(q) == pc[q] \in {"exit_passed", "closed"}

\* C12: in every interleaving of the owner's on_main_rpc_connection with the
\* non-owners' on_exit_rpc_process, the owner passes the data-parallel
\* barrier both before and after the optimizer-registration broadcast, and
\* no non-owner passes its barrier before wrapping and optimizer
\* registration are complete on the owner.
C12_BarrierBeforeAndAfterRegistration ==
  /\ \A p \in Procs :
       (main_rpc_process[p] /\ pc[p] = "main_done") =>
         \E i, j, k \in 1 .. Len(log[p]) :
           /\ i < j /\ j < k
           /\ log[p][i] = Ev("barrier_pass", p)
           /\ log[p][j] = Ev("register_optimizers", p)
           /\ log[p][k] = Ev("barrier_pass", p)
  /\ \A q \in Procs :
       (~main_rpc_process[q] /\ PassedExitBarrier(q)) =>
         \A p \in Procs : main_rpc_process[p] => OwnerReady(p)

\* The position of event e in the log of rank p, 0 if it is not there.
Pos(p, e) ==
  IF e \in Range(log[p]) THEN CHOOSE k \in 1 .. Len(log[p]) : log[p][k] = e ELSE 0

InExit(p) == pc[p] \in {"exit_barrier", "exit_passed", "closed"}

\* on_exit_rpc_process shuts RPC down only after the barrier was passed, as
\* its last effect.
ShutdownAfterBarrier(p) ==
  /\ pc[p] = "exit_barrier" => log[p] = <<Ev("barrier_wait", p)>>
  /\ pc[p] = "exit_passed" => log[p] = <<Ev("barrier_wait", p), Ev("barrier_pass", p)>>
  /\ pc[p] = "closed" =>
       /\ 0 < Pos(p, Ev("barrier_pass", p))
       /\ Pos(p, Ev("barrier_pass", p)) < Pos(p, Ev("rpc_shutdown", p))
       /\ Pos(p, Ev("rpc_shutdown", p)) = Len(log[p])
       /\ ~rpc_initialized[p]
  /\ pc[p] # "closed" =>
       /\ Ev("rpc_shutdown", p) \notin Range(log[p])
       /\ rpc_initialized[p]

\* Both attachments are made after the barrier and before the shutdown.
AttachBeforeShutdown(p) ==
  pc[p] = "closed" =>
    /\ Pos(p, Ev("barrier_pass", p)) < Pos(p, Ev("attach_trainer", p))
    /\ Pos(p, Ev("attach_trainer", p)) < Pos(p, Ev("rpc_shutdown", p))
    /\ Pos(p, Ev("barrier_pass", p)) < Pos(p, Ev("attach_configure_optimizers", p))
    /\ Pos(p, Ev("attach_configure_optimizers", p)) < Pos(p, Ev("rpc_shutdown", p))

\* What on_exit_rpc_process does on every rank, in order: it shuts RPC down
\* only after the barrier was passed and after both attachments.
ExitOrder(p) == ShutdownAfterBarrier(p) /\ AttachBeforeShutdown(p)

Attached(p) ==
  {Ev("attach_trainer", p), Ev("attach_configure_optimizers", p)} \subseteq Range(log[p])

\* C13 as stated: on teardown a process shuts RPC down only after passing the
\* data-parallel barrier and after the trainer's model and
\* configure_optimizers were attached to the pipeline-internal model; the
\* attachment is performed by the owner, while a non-owner only waits on the
\* barrier and shuts down.
C13_AttachmentByOwnerOnly ==
  \A p \in Procs :
    InExit(p) =>
      /\ ShutdownAfterBarrier(p)
      /\ main_rpc_process[p] => AttachBeforeShutdown(p)
      /\ (pc[p] = "closed" /\ ~main_rpc_process[p]) =>
           log[p] = <<Ev("barrier_wait", p), Ev("barrier_pass", p), Ev("rpc_shutdown", p)>>

\* C13, amended: on teardown every process that runs on_exit_rpc_process,
\* owner or not, passes the data-parallel barrier, then attaches the
\* trainer's model and configure_optimizers to the pipeline-internal model,
\* and only then shuts RPC down.
C13_TeardownOrder ==
  \A p \in Procs :
    InExit(p) =>
      /\ ExitOrder(p)
      /\ pc[p] = "closed" => Attached(p)

\* C13 witness: a non-owner has shut RPC down after attaching, and so has an owner.
C13_Witness ==
  /\ \E q \in Procs : ~main_rpc_process[q] /\ pc[q] = "closed" /\ Attached(q)
  /\ \E p \in Procs : main_rpc_process[p] /\ pc[p] = "closed" /\ Attached(p)

\* ============================================================ the balance
\* C14: a plugin created without an explicit balance is accepted, and its
\* balance is inferred at connection-setup time: the constructor called
\* without a balance returns a plugin, and an owner that completed
\* connection setup holds a balance.
C14_PluginWithoutBalanceAccepted ==
  /\ (call.op = "__init__" /\ call.input.balance = NoBalance) => call.outcome = "ok"
  /\ \A p \in Procs : (conn[p] = "ok" /\ main_rpc_process[p]) => balance # NoBalance

\* ================================================ topology initialization
\* C15: on every participating process init_model_parallel_groups runs
\* exactly once, after the base distributed connection and the RPC mesh were
\* initialized on that process and before any RPC-based orchestration, also
\* when connection setup is entered with the distributed runtime already
\* initialized in testing mode: a call that runs it runs it after both
\* initializations and on a process that had not run it before, and a
\* process whose connection setup returned has its groups initialized.
C15_TopologyInitExactlyOnce ==
  /\ (IsConnectCall /\ Ev("ensure_divisibility", call.rank) \in Range(call.trace)) =>
       /\ \E i, j, k \in 1 .. Len(call.trace) :
            /\ i < k /\ j < k
            /\ call.trace[i] = Ev("base_init", call.rank)
            /\ call.trace[j] = Ev("rpc_init", call.rank)
            /\ call.trace[k] = Ev("ensure_divisibility", call.rank)
       /\ ~call.topology_before
  /\ \A p \in Procs : conn[p] = "ok" => mpu_args[p] # <<>>

\* ======================================================= model wrapping
\* Rank p returned from on_main_rpc_connection and has not entered
\* on_exit_rpc_process; it may be inside rpc_save_model or optimizer_step.
MainReturned(p) == pc[p] \in {"main_done", "save_wait", "step_wait"}

\* Rank p entered on_main_rpc_connection and has not entered
\* on_exit_rpc_process: its log is that of on_main_rpc_connection.
InMain(p) == pc[p] \in {"main_barrier", "main_passed", "main_failed"} \/ MainReturned(p)

RegisteredOn(p) == {q \in Procs : Ev("register_optimizers", q) \in Range(log[p])}

\* C16: in on_main_rpc_connection the pipeline wrap completes before the
\* optimizer-registration broadcast is issued, the broadcast includes the
\* owner itself, and when the model has no sequential `layers` the call
\* fails with a configuration error without reaching the barrier or issuing
\* any broadcast.
C16_WrapThenRegister ==
  \A p \in Procs :
    InMain(p) =>
      /\ \A q \in RegisteredOn(p) :
           /\ has_foreach_worker[p]
           /\ q \in ReplicaOf(p)
           /\ 0 < Pos(p, Ev("wrap", p))
           /\ Pos(p, Ev("wrap", p)) < Pos(p, Ev("barrier_wait", p))
           /\ Pos(p, Ev("barrier_wait", p)) < Pos(p, Ev("barrier_pass", p))
           /\ Pos(p, Ev("barrier_pass", p)) < Pos(p, Ev("register_optimizers", q))
      /\ pc[p] \in {"main_barrier", "main_passed"} =>
           /\ has_foreach_worker[p]
           /\ model_layers[p].kind = "pipe"
      /\ MainReturned(p) =>
           /\ has_foreach_worker[p]
           /\ p \in RegisteredOn(p)
           /\ RegisteredOn(p) = ReplicaOf(p)
      /\ (call.op = "on_main_rpc_connection" /\ call.rank = p /\ call.outcome = "ok") =>
           /\ MainReturned(p)
           /\ model_layers[p].kind = "pipe"
      /\ pc[p] = "main_barrier" => RegisteredOn(p) = {}
      /\ model_layers[p].kind = "missing" =>
           /\ pc[p] = "main_failed"
           /\ log[p] = <<>>
           /\ ~has_foreach_worker[p]
      /\ (call.op = "on_main_rpc_connection" /\ call.rank = p
          /\ model_layers[p].kind = "missing") =>
           /\ call.outcome = "err_no_sequential"
           /\ call.trace = <<>>

\* C16 witness: an owner returned from on_main_rpc_connection after a
\* broadcast to itself and to another rank.
C16_Witness ==
  \E p \in Procs :
    /\ MainReturned(p)
    /\ p \in RegisteredOn(p)
    /\ RegisteredOn(p) # {p}

\* C17: when the trainer's model does not expose foreach_worker,
\* rpc_save_model does nothing: it issues no broadcast, writes and deletes
\* no shard file, does not invoke save_model_fn, and leaves the model's
\* layers as they were.
C17_Step ==
  (call'.op = "rpc_save_model" /\ ~has_foreach_worker[call'.rank]) =>
    /\ call'.outcome = "ok"
    /\ call'.trace = <<>>
    /\ call'.save_fn_got = <<>>
    /\ UNCHANGED <<files, model_layers, has_foreach_worker>>

\* C17, over every step: rpc_save_model on a model that is not pipelined
\* has no effect.
C17_UnpipelinedSaveDoesNothing == [][C17_Step]_vars

\* C17 witness: rpc_save_model returned on a model that was never wrapped.
C17_Witness ==
  /\ call.op = "rpc_save_model"
  /\ ~has_foreach_worker[call.rank]
  /\ model_layers[call.rank].kind = "sequential"
  /\ call.trace = <<>>

\* ================================================ role flag and its guard
OwnerChecks(p) == {Ev("check_sequential", p), Ev("assert_balance", p)}

\* C18: within one init_distributed_connection call, the owner-only checks
\* are executed on exactly those processes whose is_main_rpc_process is true
\* when the call returns: the role flag that guards the checks has the value
\* that set_main_rpc_process assigns in the same call.
C18_ChecksGuardedByAssignedRole ==
  (IsConnectCall /\ call.outcome = "ok" /\ ~call.input.skip) =>
    /\ call.main_before = main_rpc_process[call.rank]
    /\ (OwnerChecks(call.rank) \subseteq Range(call.trace)) = main_rpc_process[call.rank]

\* ================================================ layers after a save
\* C19: whenever rpc_save_model ends on a pipelined model, by returning or
\* by an error of the save broadcast, of reload_sequential or of
\* save_model_fn, the model's layers are the pipeline-wrapped object they
\* were before the call: never the reconstructed sequential, never absent.
C19_LayersRestoredOnEveryExit ==
  IsSaveCall =>
    /\ model_layers[call.rank] = call.layers_before
    /\ model_layers[call.rank].kind = "pipe"

\* ===================================================== toggle independence
\* C20: an optimizer_step call for index i changes only the toggle of index
\* i: the toggles of all other indices and the key set of the map are
\* unchanged, on the calling rank and on every other rank, so each index
\* alternates step / no-step on its own.  The toggle of i is negated when
\* the call is entered and is left alone while the call waits in its
\* broadcast; the value returned is the negated toggle.
C20_Step ==
  call'.op = "optimizer_step" =>
    LET p == call'.rank
        i == call'.input.opt_idx
    IN /\ DOMAIN optimizers_map'[p] = DOMAIN optimizers_map[p]
       /\ IF pc[p] = "step_wait"
          THEN optimizers_map'[p][i] = optimizers_map[p][i]
          ELSE optimizers_map'[p][i] = ~optimizers_map[p][i]
       /\ call'.outcome = "ok" => call'.ret = optimizers_map'[p][i]
       /\ call'.outcome # "ok" => optimizers_map'[p][i]
       /\ \A j \in DOMAIN optimizers_map[p] \ {i} :
            optimizers_map'[p][j] = optimizers_map[p][j]
       /\ \A q \in Procs \ {p} : optimizers_map'[q] = optimizers_map[q]

C20_StepTogglesOnlyItsIndex == [][C20_Step]_vars

\* C20 witness: after a step call with two optimizers set up, one toggle is
\* true and the other is false.
C20_Witness ==
  /\ IsStepCall
  /\ DOMAIN optimizers_map[call.rank] = {0, 1}
  /\ optimizers_map[call.rank][0] # optimizers_map[call.rank][1]
  /\ calls_since_setup[call.rank][0] + calls_since_setup[call.rank][1] >= 3
====
